---- MODULE Spec2Model ----
(***************************************************************************)
(* State-machine model of the credential store of login_system.py          *)
(* (class LoginSystem): the user map, the login-attempt map, the JSON      *)
(* files they are saved to, and the operations register, login,            *)
(* generate_recovery_code and reset_password.                              *)
(*                                                                         *)
(* Python values are modelled as follows.                                  *)
(*   dict            a function whose DOMAIN is the set of keys            *)
(*   None            the empty tuple << >>                                 *)
(*   str             a string; <<s>> in a field that may hold None         *)
(*   sha256 digest   <<"sha256", plaintext>>   (injective, never a str)    *)
(*   str(datetime)   <<"str", t>>,  datetime.isoformat()  <<"iso", t>>     *)
(*   a file          << >> when it does not exist, else <<text>>           *)
(* io is the condition of the file system: for each of the three writes of *)
(* save_data, whether it succeeds ("ok"), fails at open() and leaves the    *)
(* file as it was ("denied"), or fails after open() has truncated the file *)
(* ("torn").  os.makedirs is taken to succeed.                             *)
(* logged_user and is_admin are the session of the menu shell (class       *)
(* CobolInterface); they stay None and False while the store is used       *)
(* without the shell.                                                      *)
(* Message texts are the program's, written without accents.               *)
(***************************************************************************)
EXTENDS Integers, Sequences, FiniteSets, TLC

VARIABLES users, login_attempts, disk, now, ret, io, logged_user, is_admin

vars == <<users, login_attempts, disk, now, ret, io, logged_user, is_admin>>

----------------------------------------------------------------------------
(* config.py *)

MAX_LOGIN_ATTEMPTS == 3

LOCKOUT_TIME == 300

PASSWORD_MIN_LENGTH == 6

ADMIN_USERNAME == "admin"

ADMIN_PASSWORD == "admin123"

----------------------------------------------------------------------------
(* Bounds of the model and the inputs the operations are called with *)

\* the clock stops advancing once it has reached MaxNow seconds
MaxNow == 450

\* the clock advances by TickStep seconds at a time
TickStep == 150

\* the username login, generate_recovery_code and reset_password are called
\* with: "alice" is unknown until she registers
Usernames == {"alice"}

\* the usernames register is called with: the seed account's as well
NewUsernames == {ADMIN_USERNAME} \cup Usernames

\* passwords of 8, 6 and 5 characters: two acceptable, one too short
Passwords == {ADMIN_PASSWORD, "secret", "abc12"}

\* the confirmations typed with a password: the same again, or another
Confirmations(password) == {password, ADMIN_PASSWORD}

\* the values random.choices can return in the model (8 characters each)
GeneratedCodes == {"K7QX2M9A", "ZZ11YY22"}

\* the codes a caller may type: the generated ones and the empty string
SuppliedCodes == GeneratedCodes \cup {""}

None == << >>

\* a value of an optional str field that is not None
Some(v) == <<v>>

----------------------------------------------------------------------------
(* Conversions *)

hash_password(password) == <<"sha256", password>>

\* str(datetime.now())
str_datetime(t) == <<"str", t>>

\* datetime.isoformat()
isoformat(t) == <<"iso", t>>

\* datetime.fromisoformat(): the inverse of isoformat
fromisoformat(s) == s[2]

\* json.dump of a dict of dicts: the text lists one member per key
json_dump(obj) == [valid |-> TRUE, members |-> {<<k, obj[k]>> : k \in DOMAIN obj}]

\* json.load: the dict the members describe (only called on valid text)
json_load(text) ==
    [k \in {m[1] : m \in text.members} |->
        (CHOOSE m \in text.members : m[1] = k)[2]]

\* a file whose text json.load rejects with JSONDecodeError
CorruptText == [valid |-> FALSE, members |-> {}]

NoFile == << >>

EmptyDict == [k \in {} |-> None]

\* d[key] = value, creating the key when absent
DictSet(d, key, value) ==
    [k \in DOMAIN d \cup {key} |-> IF k = key THEN value ELSE d[k]]

\* del d[key]
DictDel(d, key) == [k \in DOMAIN d \ {key} |-> d[k]]

----------------------------------------------------------------------------
(* save_data: backup of the user file, then both files rewritten; each of  *)
(* the three writes is in a try block of its own                           *)

\* every write succeeds
IoOk == [backup |-> "ok", db |-> "ok", attempts |-> "ok"]

\* with open(path, 'w') as f: f.write(text), inside try/except Exception
WriteFile(old, text, outcome) ==
    CASE outcome = "ok"     -> <<text>>
      [] outcome = "denied" -> old
      [] outcome = "torn"   -> <<CorruptText>>

\* a backup that is made only while there is none yet
BackupFile_Mut(dk, cond) ==
    IF dk.db # NoFile /\ dk.backup = NoFile
    THEN WriteFile(dk.backup, dk.db[1], cond.backup)
    ELSE dk.backup

\* if os.path.exists(DATABASE_FILE): backup.write(file.read())
BackupFile(dk, cond) ==
    IF dk.db # NoFile
    THEN WriteFile(dk.backup, dk.db[1], cond.backup)
    ELSE dk.backup

\* save_data without the write of the attempts file
save_data_Mut(us, la, dk, cond) ==
    [db       |-> WriteFile(dk.db, json_dump(us), cond.db),
     backup   |-> BackupFile(dk, cond),
     attempts |-> dk.attempts]

save_data(us, la, dk, cond) ==
    [db       |-> WriteFile(dk.db, json_dump(us), cond.db),
     backup   |-> BackupFile(dk, cond),
     attempts |-> WriteFile(dk.attempts, json_dump(la), cond.attempts)]

\* a new user record that keeps the password as it was typed
NewUser_Mut(password, role, t) ==
    [password      |-> <<"plain", password>>,
     role          |-> role,
     created_at    |-> str_datetime(t),
     last_login    |-> None,
     recovery_code |-> None]

\* the user record register and load_data create
NewUser(password, role, t) ==
    [password      |-> hash_password(password),
     role          |-> role,
     created_at    |-> str_datetime(t),
     last_login    |-> None,
     recovery_code |-> None]

\* the users of load_data, with a new admin also for a corrupt user file
LoadedUsers_Mut(dk, t) ==
    IF dk.db # NoFile /\ dk.db[1].valid
    THEN json_load(dk.db[1])
    ELSE DictSet(EmptyDict, ADMIN_USERNAME, NewUser(ADMIN_PASSWORD, "admin", t))

\* the users of load_data: read from the user file, {} if it does not
\* parse, the default admin if there is no file
LoadedUsers(dk, t) ==
    IF dk.db # NoFile
    THEN IF dk.db[1].valid THEN json_load(dk.db[1]) ELSE EmptyDict
    ELSE DictSet(EmptyDict, ADMIN_USERNAME, NewUser(ADMIN_PASSWORD, "admin", t))

\* load_data that leaves the attempts as __init__ set them
load_data_Mut(dk, t, cond) ==
    LET us == LoadedUsers(dk, t)
        dk2 == IF dk.db # NoFile THEN dk ELSE save_data(us, EmptyDict, dk, cond)
    IN  [users |-> us, login_attempts |-> EmptyDict, disk |-> dk2]

\* load_data: the users, attempts and files after __init__ at time t
load_data(dk, t, cond) ==
    LET us == LoadedUsers(dk, t)
        \* save_data runs with the attempts still empty (set in __init__)
        dk2 == IF dk.db # NoFile THEN dk ELSE save_data(us, EmptyDict, dk, cond)
        la == IF dk2.attempts # NoFile
              THEN IF dk2.attempts[1].valid THEN json_load(dk2.attempts[1])
                   ELSE EmptyDict
              ELSE EmptyDict
    IN  [users |-> us, login_attempts |-> la, disk |-> dk2]

----------------------------------------------------------------------------
(* Results: the (bool, str) tuple an operation returns, with the call *)

Result(op, args, ok, msg, n) ==
    [op |-> op, args |-> args, ok |-> ok, msg |-> msg, n |-> n]

MsgUserExists == "Usuario ja existe."
MsgPasswordTooShort == "A senha deve ter pelo menos N caracteres."
MsgPasswordMismatch == "As senhas nao conferem."
MsgRegistered == "Usuario registrado com sucesso!"
MsgUserNotFound == "Usuario nao encontrado."
MsgLocked == "Conta bloqueada. Tente novamente em N segundos."
MsgNewlyLocked == "Conta bloqueada por N minutos devido a muitas tentativas incorretas."
MsgInvalidPassword == "Senha incorreta. Tentativas restantes: N."
MsgLoginOk == "Login realizado com sucesso!"
MsgInvalidCode == "Codigo de recuperacao invalido."
MsgNewPasswordTooShort == "A nova senha deve ter pelo menos N caracteres."
MsgResetOk == "Senha redefinida com sucesso!"

----------------------------------------------------------------------------
(* The object: self.users, self.login_attempts and the files.  Every      *)
(* operation is a function from the object, the time and the arguments to  *)
(* the object afterwards and the returned tuple.                           *)

\* the object on a file system whose writes succeed
Self(us, la, dk) ==
    [users |-> us, login_attempts |-> la, disk |-> dk, io |-> IoOk]

\* an operation that returns without changing anything
Return(self, r) ==
    [users |-> self.users, login_attempts |-> self.login_attempts,
     disk |-> self.disk, ret |-> r]

\* an operation that gives up its changes when a write of save_data fails
SaveAndReturn_Mut(self, us, la, r) ==
    IF self.io = IoOk
    THEN [users |-> us, login_attempts |-> la,
          disk |-> save_data(us, la, self.disk, self.io), ret |-> r]
    ELSE [users |-> self.users, login_attempts |-> self.login_attempts,
          disk |-> self.disk, ret |-> r]

\* an operation that changes the maps, calls save_data and returns
SaveAndReturn(self, us, la, r) ==
    [users |-> us, login_attempts |-> la,
     disk |-> save_data(us, la, self.disk, self.io), ret |-> r]

\* the step of the state machine that performs the call with outcome out
Apply(out) ==
    /\ users' = out.users
    /\ login_attempts' = out.login_attempts
    /\ disk' = out.disk
    /\ ret' = out.ret
    /\ UNCHANGED <<now, io, logged_user, is_admin>>

\* the object as it is, on the file system as it is
Me == [users |-> users, login_attempts |-> login_attempts, disk |-> disk,
       io |-> io]

\* UserNotFound counting the call as a failed attempt of that username
UserNotFound_Mut(self, op, args) ==
    LET la == self.login_attempts
        c == IF args[1] \in DOMAIN la THEN la[args[1]]["count"] ELSE 0
    IN  SaveAndReturn(self, self.users,
            [k \in DOMAIN la \cup {args[1]} |->
                IF k = args[1] THEN [count |-> c + 1] ELSE la[k]],
            [op |-> op, args |-> args, ok |-> FALSE,
             msg |-> "Usuario nao encontrado.", n |-> 0])

\* if username not in self.users: return False, "Usuario nao encontrado."
UserNotFound(self, op, args) ==
    Return(self, Result(op, args, FALSE, MsgUserNotFound, 0))

----------------------------------------------------------------------------
(* Initial state: a first run, no file exists, __init__ at time 0 *)

EmptyDisk == [db |-> NoFile, backup |-> NoFile, attempts |-> NoFile]

Init ==
    LET s == load_data(EmptyDisk, 0, IoOk)
    IN  /\ users = s.users
        /\ login_attempts = s.login_attempts
        /\ disk = s.disk
        /\ now = 0
        /\ ret = Result("__init__", << >>, TRUE, "", 0)
        /\ io = IoOk
        /\ logged_user = None
        /\ is_admin = FALSE

----------------------------------------------------------------------------
(* register *)

\* PasswordTooShort refusing the minimum length as well
PasswordTooShort_Mut(password) == Len(password) <= PASSWORD_MIN_LENGTH

\* len(password) < PASSWORD_MIN_LENGTH
PasswordTooShort(password) == Len(password) < PASSWORD_MIN_LENGTH

\* a register that makes every new user an administrator
UserRole_Mut == "admin"

\* "role": "user" in the record register creates
UserRole == "user"

\* register with the length check ahead of the check for an existing user
register_Mut(self, t, username, password, confirm_password) ==
    LET args == <<username, password, confirm_password>>
    IN  IF PasswordTooShort(password)
        THEN Return(self, Result("register", args, FALSE, MsgPasswordTooShort,
                                 PASSWORD_MIN_LENGTH))
        ELSE IF username \in DOMAIN self.users
        THEN Return(self, Result("register", args, FALSE, MsgUserExists, 0))
        ELSE IF password # confirm_password
        THEN Return(self, Result("register", args, FALSE, MsgPasswordMismatch, 0))
        ELSE SaveAndReturn(self,
                 DictSet(self.users, username, NewUser(password, UserRole, t)),
                 self.login_attempts,
                 Result("register", args, TRUE, MsgRegistered, 0))

register(self, t, username, password, confirm_password) ==
    LET args == <<username, password, confirm_password>>
    IN  IF username \in DOMAIN self.users
        THEN Return(self, Result("register", args, FALSE, MsgUserExists, 0))
        ELSE IF PasswordTooShort(password)
        THEN Return(self, Result("register", args, FALSE, MsgPasswordTooShort,
                                 PASSWORD_MIN_LENGTH))
        ELSE IF password # confirm_password
        THEN Return(self, Result("register", args, FALSE, MsgPasswordMismatch, 0))
        ELSE SaveAndReturn(self,
                 DictSet(self.users, username, NewUser(password, UserRole, t)),
                 self.login_attempts,
                 Result("register", args, TRUE, MsgRegistered, 0))

Register ==
    \E username \in NewUsernames, password \in Passwords :
      \E confirm \in Confirmations(password) :
        Apply(register(Me, now, username, password, confirm))

----------------------------------------------------------------------------
(* login.  The calls of datetime.now() inside one login are one instant. *)

\* "lockout_until" in attempts
HasLockout(la, username) ==
    /\ username \in DOMAIN la
    /\ "lockout_until" \in DOMAIN la[username]

\* the comparison of LockoutActive turned round
LockoutActive_Mut(attempts, t) == fromisoformat(attempts["lockout_until"]) < t

\* datetime.now() < lockout_time
LockoutActive(attempts, t) == t < fromisoformat(attempts["lockout_until"])

\* (lockout_time - datetime.now()).seconds
RemainingSeconds(attempts, t) ==
    (fromisoformat(attempts["lockout_until"]) - t) % 86400

\* ClearLockout without the reset of the count
ClearLockout_Mut(attempts) == DictDel(attempts, "lockout_until")

\* del attempts["lockout_until"]; attempts["count"] = 0
ClearLockout(attempts) == DictSet(DictDel(attempts, "lockout_until"), "count", 0)

\* a login that does not compare the password
PasswordMatches_Mut(user, password) == TRUE

\* the stored hash against the hash of the typed password
PasswordMatches(user, password) == user["password"] = hash_password(password)

\* IncrementCount counting a failure twice
IncrementCount_Mut(attempts) == DictSet(attempts, "count", attempts["count"] + 2)

\* attempts["count"] += 1
IncrementCount(attempts) == DictSet(attempts, "count", attempts["count"] + 1)

\* ReachedMax off by one
ReachedMax_Mut(attempts) == attempts["count"] > MAX_LOGIN_ATTEMPTS

\* count >= MAX_LOGIN_ATTEMPTS
ReachedMax(attempts) == attempts["count"] >= MAX_LOGIN_ATTEMPTS

\* a lockout that is announced and not recorded
SetLockout_Mut(attempts, t) == attempts

\* attempts["lockout_until"] = (now + LOCKOUT_TIME).isoformat()
SetLockout(attempts, t) ==
    DictSet(attempts, "lockout_until", isoformat(t + LOCKOUT_TIME))

\* the attempt map after the lockout check, when the call goes on
AfterLockoutCheck(la, username) ==
    IF HasLockout(la, username)
    THEN DictSet(la, username, ClearLockout(la[username]))
    ELSE la

\* the attempt map after a wrong password was counted
AfterWrongPassword(la, username) ==
    LET la1 == IF username \notin DOMAIN la
               THEN DictSet(la, username, [count |-> 0])
               ELSE la
    IN  DictSet(la1, username, IncrementCount(la1[username]))

\* AfterSuccess without the reset of the count
AfterSuccess_Mut(la, username) == la

\* the attempt map after a successful login
AfterSuccess(la, username) ==
    IF username \in DOMAIN la
    THEN DictSet(la, username, DictSet(la[username], "count", 0))
    ELSE la

\* self.users[username]["last_login"] = str(datetime.now())
SetLastLogin(us, username, t) ==
    DictSet(us, username, DictSet(us[username], "last_login", str_datetime(t)))

\* a refusal that starts the lockout again from the time of the call
Locked_Mut(self, t, args) ==
    SaveAndReturn(self, self.users,
        DictSet(self.login_attempts, args[1],
                SetLockout(self.login_attempts[args[1]], t)),
        Result("login", args, FALSE, MsgLocked,
               RemainingSeconds(self.login_attempts[args[1]], t)))

\* the return while the lockout is in effect: nothing is changed or saved
Locked(self, t, args) ==
    Return(self, Result("login", args, FALSE, MsgLocked,
                        RemainingSeconds(self.login_attempts[args[1]], t)))

login(self, t, username, password) ==
    LET args == <<username, password>>
        la0 == self.login_attempts
    IN  IF username \notin DOMAIN self.users
        THEN UserNotFound(self, "login", args)
        ELSE IF HasLockout(la0, username) /\ LockoutActive(la0[username], t)
        THEN Locked(self, t, args)
        ELSE LET la1 == AfterLockoutCheck(la0, username)
             IN  IF ~PasswordMatches(self.users[username], password)
                 THEN LET la2 == AfterWrongPassword(la1, username)
                      IN  IF ReachedMax(la2[username])
                          THEN SaveAndReturn(self, self.users,
                                   DictSet(la2, username,
                                           SetLockout(la2[username], t)),
                                   Result("login", args, FALSE, MsgNewlyLocked,
                                          LOCKOUT_TIME \div 60))
                          ELSE SaveAndReturn(self, self.users, la2,
                                   Result("login", args, FALSE, MsgInvalidPassword,
                                          MAX_LOGIN_ATTEMPTS - la2[username]["count"]))
                 ELSE SaveAndReturn(self,
                          SetLastLogin(self.users, username, t),
                          AfterSuccess(la1, username),
                          Result("login", args, TRUE, MsgLoginOk, 0))

Login ==
    \E username \in Usernames, password \in Passwords :
        Apply(login(Me, now, username, password))

----------------------------------------------------------------------------
(* generate_recovery_code; code is the string random.choices returned *)

\* generate_recovery_code that keeps a code already stored
generate_recovery_code_Mut(self, username, code) ==
    LET args == <<username>>
    IN  IF username \notin DOMAIN self.users
        THEN UserNotFound(self, "generate_recovery_code", args)
        ELSE SaveAndReturn(self,
                 IF self.users[username]["recovery_code"] = None
                 THEN DictSet(self.users, username,
                              DictSet(self.users[username], "recovery_code",
                                      Some(code)))
                 ELSE self.users,
                 self.login_attempts,
                 Result("generate_recovery_code", args, TRUE, code, 0))

generate_recovery_code(self, username, code) ==
    LET args == <<username>>
    IN  IF username \notin DOMAIN self.users
        THEN UserNotFound(self, "generate_recovery_code", args)
        ELSE SaveAndReturn(self,
                 DictSet(self.users, username,
                         DictSet(self.users[username], "recovery_code", Some(code))),
                 self.login_attempts,
                 Result("generate_recovery_code", args, TRUE, code, 0))

GenerateRecoveryCode ==
    \E username \in Usernames, code \in GeneratedCodes :
        Apply(generate_recovery_code(Me, username, code))

----------------------------------------------------------------------------
(* reset_password *)

\* not user["recovery_code"]: None and the empty string are falsy
Falsy(stored) == stored = None \/ stored = Some("")

\* RecoveryCodeInvalid with "and" in the place of "or"
RecoveryCodeInvalid_Mut(stored, recovery_code) ==
    Falsy(stored) /\ stored # Some(recovery_code)

\* not user["recovery_code"] or user["recovery_code"] != recovery_code
RecoveryCodeInvalid(stored, recovery_code) ==
    Falsy(stored) \/ stored # Some(recovery_code)

\* WithNewPassword leaving the code in place
WithNewPassword_Mut(user, new_password) ==
    DictSet(user, "password", hash_password(new_password))

\* user["password"] = hash(new_password); user["recovery_code"] = None
WithNewPassword(user, new_password) ==
    DictSet(DictSet(user, "password", hash_password(new_password)),
            "recovery_code", None)

\* reset_password that also forgets the failed logins of the user
reset_password_Mut(self, username, recovery_code, new_password) ==
    LET args == <<username, recovery_code, new_password>>
    IN  IF username \notin DOMAIN self.users
        THEN UserNotFound(self, "reset_password", args)
        ELSE IF RecoveryCodeInvalid(self.users[username]["recovery_code"],
                                    recovery_code)
        THEN Return(self, Result("reset_password", args, FALSE, MsgInvalidCode, 0))
        ELSE IF PasswordTooShort(new_password)
        THEN Return(self, Result("reset_password", args, FALSE,
                                 MsgNewPasswordTooShort, PASSWORD_MIN_LENGTH))
        ELSE SaveAndReturn(self,
                 DictSet(self.users, username,
                         WithNewPassword(self.users[username], new_password)),
                 DictDel(self.login_attempts, username),
                 Result("reset_password", args, TRUE, MsgResetOk, 0))

reset_password(self, username, recovery_code, new_password) ==
    LET args == <<username, recovery_code, new_password>>
    IN  IF username \notin DOMAIN self.users
        THEN UserNotFound(self, "reset_password", args)
        ELSE IF RecoveryCodeInvalid(self.users[username]["recovery_code"],
                                    recovery_code)
        THEN Return(self, Result("reset_password", args, FALSE, MsgInvalidCode, 0))
        ELSE IF PasswordTooShort(new_password)
        THEN Return(self, Result("reset_password", args, FALSE,
                                 MsgNewPasswordTooShort, PASSWORD_MIN_LENGTH))
        ELSE SaveAndReturn(self,
                 DictSet(self.users, username,
                         WithNewPassword(self.users[username], new_password)),
                 self.login_attempts,
                 Result("reset_password", args, TRUE, MsgResetOk, 0))

ResetPassword ==
    \E username \in Usernames, recovery_code \in SuppliedCodes,
       new_password \in Passwords :
        Apply(reset_password(Me, username, recovery_code, new_password))

----------------------------------------------------------------------------
(* The clock *)

Tick ==
    /\ now + TickStep <= MaxNow
    /\ now' = now + TickStep
    /\ ret' = Result("tick", << >>, TRUE, "", 0)
    /\ UNCHANGED <<users, login_attempts, disk, io, logged_user, is_admin>>

----------------------------------------------------------------------------
(* The process ends and is started again: LoginSystem() reads the files *)

Restart ==
    LET s == load_data(disk, now, io)
    IN  /\ users' = s.users
        /\ login_attempts' = s.login_attempts
        /\ disk' = s.disk
        /\ ret' = Result("__init__", << >>, TRUE, "", 0)
        /\ UNCHANGED <<now, io, logged_user, is_admin>>

Next ==
    \/ Register
    \/ Login
    \/ GenerateRecoveryCode
    \/ ResetPassword
    \/ Tick
    \/ Restart

Spec == Init /\ [][Next]_vars

----------------------------------------------------------------------------
(* The same object on a file system whose writes can fail.  A write is    *)
(* refused (the file stays as it was), or breaks off after open() has      *)
(* truncated the file, or succeeds; the except branches of save_data print *)
(* and go on.  One of the three writes of a save_data fails at a time.     *)

\* the conditions a save_data can meet
IoModes ==
    {IoOk}
    \cup {[IoOk EXCEPT ![f] = "denied"] : f \in {"backup", "db", "attempts"}}
    \cup {[IoOk EXCEPT !.db = "torn"]}

\* the inputs of the calls made on the failing file system
IoPasswords == {ADMIN_PASSWORD, "abc12"}
IoNewPassword == "secret"
IoCode == "K7QX2M9A"

\* the first run of the program, on a file system in any condition
InitIO ==
    \E cond \in IoModes :
        LET s == load_data(EmptyDisk, 0, cond)
        IN  /\ users = s.users
            /\ login_attempts = s.login_attempts
            /\ disk = s.disk
            /\ now = 0
            /\ ret = Result("__init__", << >>, TRUE, "", 0)
            /\ io = cond
            /\ logged_user = None
            /\ is_admin = FALSE

\* the condition of the file system changes between two calls
SetIo ==
    /\ \E cond \in IoModes \ {io} : io' = cond
    /\ ret' = Result("io", << >>, TRUE, "", 0)
    /\ UNCHANGED <<users, login_attempts, disk, now, logged_user, is_admin>>

LoginIO ==
    \E password \in IoPasswords :
        Apply(login(Me, now, ADMIN_USERNAME, password))

GenerateRecoveryCodeIO ==
    Apply(generate_recovery_code(Me, ADMIN_USERNAME, IoCode))

ResetPasswordIO ==
    Apply(reset_password(Me, ADMIN_USERNAME, IoCode, IoNewPassword))

NextIO ==
    \/ LoginIO
    \/ GenerateRecoveryCodeIO
    \/ ResetPasswordIO
    \/ SetIo
    \/ Tick
    \/ Restart

SpecIO == InitIO /\ [][NextIO]_vars

----------------------------------------------------------------------------
(* The menu shell, CobolInterface: one action per pass of the loop of      *)
(* run().  The menus ask for the name first and call the store only for a  *)
(* name it knows (register_menu: only for one it does not know).           *)

\* the names and passwords typed at the prompts
ShellUsernames == {ADMIN_USERNAME, "alice"}
ShellPasswords == {ADMIN_PASSWORD, "abc12"}

\* a menu that returns after show_message, without calling the store
ShellMessage(menu, args) == Return(Me, Result(menu, args, FALSE, "", 0))

\* one pass of the loop: the store and the session afterwards
ShellStep(out, user, admin) ==
    /\ users' = out.users
    /\ login_attempts' = out.login_attempts
    /\ disk' = out.disk
    /\ ret' = out.ret
    /\ logged_user' = user
    /\ is_admin' = admin
    /\ UNCHANGED <<now, io>>

\* if self.logged_user: None and the empty name are falsy
LoggedIn == logged_user # None /\ logged_user # Some("")

\* is_admin as login_menu sets it, without looking at the role
IsAdminRole_Mut(us, username) == TRUE

\* self.system.users[username]["role"] == "admin"
IsAdminRole(us, username) == us[username]["role"] = "admin"

\* option 1 of the main menu: login_menu
LoginMenu ==
    /\ ~LoggedIn
    /\ \E username \in ShellUsernames, password \in ShellPasswords :
         IF username \notin DOMAIN users
         THEN ShellStep(ShellMessage("login_menu", <<username>>),
                        logged_user, is_admin)
         ELSE LET out == login(Me, now, username, password)
              IN  IF out.ret.ok
                  THEN ShellStep(out, Some(username),
                                 IsAdminRole(out.users, username))
                  ELSE ShellStep(out, logged_user, is_admin)

\* option 2 of the main menu: register_menu
RegisterMenu ==
    /\ ~LoggedIn
    /\ \E username \in ShellUsernames, password \in ShellPasswords :
         IF username \in DOMAIN users
         THEN ShellStep(ShellMessage("register_menu", <<username>>),
                        logged_user, is_admin)
         ELSE ShellStep(register(Me, now, username, password, password),
                        logged_user, is_admin)

\* option 3 of the main menu: recovery_menu, its options 1 and 2
RecoveryMenu ==
    /\ ~LoggedIn
    /\ \E username \in ShellUsernames :
         IF username \notin DOMAIN users
         THEN ShellStep(ShellMessage("recovery_menu", <<username>>),
                        logged_user, is_admin)
         ELSE \/ ShellStep(generate_recovery_code(Me, username, IoCode),
                           logged_user, is_admin)
              \/ IF Falsy(users[username]["recovery_code"])
                 THEN ShellStep(ShellMessage("recovery_menu", <<username>>),
                                logged_user, is_admin)
                 ELSE \E new_password \in ShellPasswords :
                        ShellStep(reset_password(Me, username, IoCode,
                                                 new_password),
                                  logged_user, is_admin)

\* option 1 of the administrator's menu: list_users_menu
ListUsersMenu ==
    /\ LoggedIn
    /\ is_admin
    /\ IF ~is_admin
       THEN ShellStep(ShellMessage("list_users_menu", << >>),
                      logged_user, is_admin)
       ELSE ShellStep(Return(Me, Result("list_users", << >>, TRUE, "", 0)),
                      logged_user, is_admin)

\* "Sair da conta" in the administrator's menu
AdminLogout ==
    /\ LoggedIn
    /\ is_admin
    /\ ShellStep(ShellMessage("logout", << >>), None, FALSE)

\* "Sair da conta" in the user's menu: is_admin is not assigned
UserLogout ==
    /\ LoggedIn
    /\ ~is_admin
    /\ ShellStep(ShellMessage("logout", << >>), None, is_admin)

\* time passes at a prompt, long enough for a lockout to end
ShellTick ==
    /\ now + LOCKOUT_TIME <= MaxNow
    /\ now' = now + LOCKOUT_TIME
    /\ ret' = Result("tick", << >>, TRUE, "", 0)
    /\ UNCHANGED <<users, login_attempts, disk, io, logged_user, is_admin>>

NextShell ==
    \/ LoginMenu
    \/ RegisterMenu
    \/ RecoveryMenu
    \/ ListUsersMenu
    \/ AdminLogout
    \/ UserLogout
    \/ ShellTick

SpecShell == Init /\ [][NextShell]_vars

----------------------------------------------------------------------------
(* Vocabulary of the properties, read off the state alone *)

\* failed_count of a user: an absent record counts as zero
FailedCount(la, u) == IF u \in DOMAIN la THEN la[u]["count"] ELSE 0

HasLockoutUntil(la, u) == u \in DOMAIN la /\ "lockout_until" \in DOMAIN la[u]

\* lockout_until as a time (only where HasLockoutUntil)
LockoutUntil(la, u) == la[u]["lockout_until"][2]

\* the lockout of u is in effect at time t
LockedAt(la, u, t) == HasLockoutUntil(la, u) /\ t < LockoutUntil(la, u)

\* u has a lockout that time t has reached or passed
ExpiredAt(la, u, t) == HasLockoutUntil(la, u) /\ t >= LockoutUntil(la, u)

\* p is the password of registered user u
IsPasswordOf(us, u, p) == us[u]["password"] = <<"sha256", p>>

\* the step is a call of op (the call's result is in ret')
Called(op) == ret'.op = op

----------------------------------------------------------------------------
(* C1 *)

\* the record of every user other than those in S is left as it was
AttemptsKeptExcept(S) ==
    \A v \in (DOMAIN login_attempts \cup DOMAIN login_attempts') \ S :
        /\ v \in DOMAIN login_attempts /\ v \in DOMAIN login_attempts'
        /\ login_attempts'[v] = login_attempts[v]

\* C1: a run of consecutive wrong-password logins of a registered user that
\* starts with failed_count 0 and no lockout: its k-th call finds failed_count
\* k - 1 and no lockout (no step between two calls of the run changes the
\* user's attempt record), fails with InvalidPassword reporting
\* MAX_LOGIN_ATTEMPTS - k attempts when k < MAX_LOGIN_ATTEMPTS, and when
\* k = MAX_LOGIN_ATTEMPTS fails with AccountLocked and sets lockout_until to
\* the time of the call + LOCKOUT_TIME.
C1_WrongPasswordRun ==
    [][IF Called("login") /\ ret'.args[1] \in DOMAIN users
       THEN LET u == ret'.args[1]
                k == FailedCount(login_attempts, u) + 1
            IN  /\ AttemptsKeptExcept({u})
                /\ (/\ ~IsPasswordOf(users, u, ret'.args[2])
                    /\ ~HasLockoutUntil(login_attempts, u)
                    /\ k <= MAX_LOGIN_ATTEMPTS)
                   => /\ ~ret'.ok
                      /\ FailedCount(login_attempts', u) = k
                      /\ IF k < MAX_LOGIN_ATTEMPTS
                         THEN /\ ret'.msg = MsgInvalidPassword
                              /\ ret'.n = MAX_LOGIN_ATTEMPTS - k
                              /\ ~HasLockoutUntil(login_attempts', u)
                         ELSE /\ ret'.msg = MsgNewlyLocked
                              /\ HasLockoutUntil(login_attempts', u)
                              /\ LockoutUntil(login_attempts', u) = now + LOCKOUT_TIME
       ELSE AttemptsKeptExcept({})]_vars

\* the third wrong password in a row has just locked the account
C1_Witness ==
    /\ ret.op = "login"
    /\ ret.msg = MsgNewlyLocked
    /\ FailedCount(login_attempts, ret.args[1]) = MAX_LOGIN_ATTEMPTS
    /\ LockoutUntil(login_attempts, ret.args[1]) = now + LOCKOUT_TIME

----------------------------------------------------------------------------
(* C2 *)

\* C2: every login of a registered user made while that user's lockout_until
\* is in the future fails with AccountLocked, whatever the password; so no
\* login succeeds before lockout_until.
C2_LockedOut ==
    [][(Called("login") /\ ret'.args[1] \in DOMAIN users
            /\ LockedAt(login_attempts, ret'.args[1], now))
         => (~ret'.ok /\ ret'.msg = MsgLocked
                /\ ret'.n = LockoutUntil(login_attempts, ret'.args[1]) - now)]_vars

\* the correct password was typed during the lockout and was refused
C2_Witness ==
    /\ ret.op = "login"
    /\ ret.msg = MsgLocked
    /\ IsPasswordOf(users, ret.args[1], ret.args[2])
    /\ LockedAt(login_attempts, ret.args[1], now)

----------------------------------------------------------------------------
(* C3 *)

\* C3: a login of a user whose lockout_until the clock has reached or passed
\* removes lockout_until and zeroes failed_count before the password is
\* compared: with the correct password it succeeds and leaves the record at
\* count 0, with a wrong one it fails with InvalidPassword (not AccountLocked)
\* and leaves the record at count 1, in both cases without lockout_until.
C3_LockoutExpiry ==
    [][(Called("login") /\ ret'.args[1] \in DOMAIN users
            /\ ExpiredAt(login_attempts, ret'.args[1], now))
         => LET u == ret'.args[1]
            IN  IF IsPasswordOf(users, u, ret'.args[2])
                THEN ret'.ok /\ login_attempts'[u] = [count |-> 0]
                ELSE /\ ~ret'.ok
                     /\ ret'.msg = MsgInvalidPassword
                     /\ ret'.n = MAX_LOGIN_ATTEMPTS - 1
                     /\ login_attempts'[u] = [count |-> 1]]_vars

\* a lockout has run out, and the next login with a wrong password is
\* answered InvalidPassword, the next one with the right password succeeds
C3_Witness ==
    \E u \in DOMAIN users :
        /\ ExpiredAt(login_attempts, u, now)
        /\ now > LockoutUntil(login_attempts, u)
        /\ \E p \in Passwords : login(Me, now, u, p).ret.msg = MsgInvalidPassword
        /\ \E p \in Passwords : login(Me, now, u, p).ret.ok

----------------------------------------------------------------------------
(* C4 *)

\* C4 as stated: every login with a wrong password takes failed_count up by
\* exactly 1, and failed_count goes down only by a successful login or a
\* reset at lockout expiry.
C4_Original ==
    [][\A u \in DOMAIN users :
        /\ (Called("login") /\ ret'.args[1] = u
                /\ ~IsPasswordOf(users, u, ret'.args[2]))
              => FailedCount(login_attempts', u) = FailedCount(login_attempts, u) + 1
        /\ FailedCount(login_attempts', u) < FailedCount(login_attempts, u)
              => /\ Called("login") /\ ret'.args[1] = u
                 /\ ret'.ok \/ ExpiredAt(login_attempts, u, now)]_vars

\* C4 amended: a login with a wrong password leaves failed_count unchanged
\* when it is refused by a lockout in effect, at 1 when it clears an expired
\* lockout, and one above its previous value otherwise; failed_count goes
\* down only by a successful login or a reset at lockout expiry.
C4_FailedCountSteps ==
    [][\A u \in DOMAIN users :
        LET c == FailedCount(login_attempts, u)
            d == FailedCount(login_attempts', u)
        IN  /\ (Called("login") /\ ret'.args[1] = u
                    /\ ~IsPasswordOf(users, u, ret'.args[2]))
                  => IF LockedAt(login_attempts, u, now) THEN d = c
                     ELSE IF ExpiredAt(login_attempts, u, now) THEN d = 1
                     ELSE d = c + 1
            /\ d < c => /\ Called("login") /\ ret'.args[1] = u
                        /\ ret'.ok \/ ExpiredAt(login_attempts, u, now)]_vars

\* a wrong password typed during a lockout: refused, the count stays at the
\* maximum
C4_Witness ==
    /\ ret.op = "login"
    /\ ret.msg = MsgLocked
    /\ ~IsPasswordOf(users, ret.args[1], ret.args[2])
    /\ FailedCount(login_attempts, ret.args[1]) = MAX_LOGIN_ATTEMPTS

----------------------------------------------------------------------------
(* C5 *)

\* C5: a successful login leaves the user's attempt record, if there is one,
\* at count 0 without lockout_until, and sets last_login to the time of the
\* call; a failed login changes no user record (so no last_login).
C5_SuccessfulLogin ==
    [][Called("login")
         => LET u == ret'.args[1]
            IN  IF ret'.ok
                THEN /\ u \in DOMAIN login_attempts'
                           => login_attempts'[u] = [count |-> 0]
                     /\ u \in DOMAIN login_attempts
                           => u \in DOMAIN login_attempts'
                     /\ users'[u]["last_login"] = <<"str", now>>
                ELSE users' = users]_vars

\* a login has succeeded for a user who had failed before: the record is
\* there, at count 0, and last_login is the time of the call
C5_Witness ==
    /\ ret.op = "login"
    /\ ret.ok
    /\ ret.args[1] \in DOMAIN login_attempts
    /\ login_attempts[ret.args[1]] = [count |-> 0]
    /\ users[ret.args[1]]["last_login"] = <<"str", now>>

----------------------------------------------------------------------------
(* C6 *)

\* C6: register(username, password, password) with a username that is not
\* registered (and has no attempt record) and a password of at least
\* PASSWORD_MIN_LENGTH characters succeeds, and in the state it leaves a login
\* with the same credentials, at once or later, succeeds.
C6_RegisterThenLogin ==
    [][(/\ Called("register")
        /\ ret'.args[1] \notin DOMAIN users
        /\ ret'.args[1] \notin DOMAIN login_attempts
        /\ Len(ret'.args[2]) >= PASSWORD_MIN_LENGTH
        /\ ret'.args[3] = ret'.args[2])
         => /\ ret'.ok
            /\ ret'.args[1] \in DOMAIN users'
            /\ \A t \in {now, now + TickStep} :
                 login(Self(users', login_attempts', disk'), t,
                       ret'.args[1], ret'.args[2]).ret.ok]_vars

\* a user has registered with a password of exactly the minimum length and
\* then logged in with it, never having failed
C6_Witness ==
    /\ ret.op = "login"
    /\ ret.ok
    /\ ret.args[1] # ADMIN_USERNAME
    /\ Len(ret.args[2]) = PASSWORD_MIN_LENGTH
    /\ ret.args[1] \notin DOMAIN login_attempts

----------------------------------------------------------------------------
(* C7 *)

\* C7: register fails with DuplicateUser when the username is registered,
\* else with PasswordTooShort when the password is too short, else with
\* PasswordMismatch when the confirmation differs; a failed register changes
\* neither map, and no register changes the record of an existing user.
C7_RegisterErrors ==
    [][Called("register")
         => LET u == ret'.args[1]
                p == ret'.args[2]
                c == ret'.args[3]
            IN  /\ IF u \in DOMAIN users
                   THEN ~ret'.ok /\ ret'.msg = MsgUserExists
                   ELSE IF Len(p) < PASSWORD_MIN_LENGTH
                   THEN ~ret'.ok /\ ret'.msg = MsgPasswordTooShort
                   ELSE IF p # c
                   THEN ~ret'.ok /\ ret'.msg = MsgPasswordMismatch
                   ELSE ret'.ok
                /\ ~ret'.ok => users' = users /\ login_attempts' = login_attempts
                /\ \A v \in DOMAIN users :
                     v \in DOMAIN users' /\ users'[v] = users[v]]_vars

\* register for the seed account's username with a short, unconfirmed
\* password was answered DuplicateUser
C7_Witness ==
    /\ ret.op = "register"
    /\ ret.args[1] = ADMIN_USERNAME
    /\ ret.msg = MsgUserExists
    /\ Len(ret.args[2]) < PASSWORD_MIN_LENGTH
    /\ ret.args[3] # ret.args[2]
    /\ ret.args[1] \in DOMAIN users

----------------------------------------------------------------------------
(* C8 *)

\* the recovery code stored for u; << >> when there is none
StoredCode(us, u) == us[u]["recovery_code"]

\* C8: a recovery code is single-use.  generate_recovery_code stores the code
\* it returns, and reset_password with that code and an acceptable password
\* then succeeds; a reset_password that succeeds was given the stored code and
\* leaves no code; while no code is stored every reset_password fails with
\* InvalidRecoveryCode, and only generate_recovery_code stores a code again.
C8_SingleUseCode ==
    [][/\ (Called("generate_recovery_code") /\ ret'.ok)
            => LET u == ret'.args[1]
               IN  /\ StoredCode(users', u) = <<ret'.msg>>
                   /\ \A p \in Passwords :
                        Len(p) >= PASSWORD_MIN_LENGTH
                          => reset_password(Self(users', login_attempts', disk'),
                                            u, ret'.msg, p).ret.ok
       /\ (Called("reset_password") /\ ret'.ok)
            => /\ StoredCode(users, ret'.args[1]) = <<ret'.args[2]>>
               /\ StoredCode(users', ret'.args[1]) = << >>
       /\ (Called("reset_password") /\ ret'.args[1] \in DOMAIN users
                /\ StoredCode(users, ret'.args[1]) = << >>)
            => ~ret'.ok /\ ret'.msg = MsgInvalidCode
       /\ \A u \in DOMAIN users :
            (StoredCode(users, u) = << >> /\ StoredCode(users', u) # << >>)
              => Called("generate_recovery_code") /\ ret'.args[1] = u]_vars

\* a reset with the code that the last save consumed (the backup still shows
\* it, the user map no longer does) was answered InvalidRecoveryCode
C8_Witness ==
    /\ ret.op = "reset_password"
    /\ ret.msg = MsgInvalidCode
    /\ ret.args[1] \in DOMAIN users
    /\ StoredCode(users, ret.args[1]) = << >>
    /\ disk.backup # << >>
    /\ \E m \in disk.backup[1].members :
         m[1] = ret.args[1] /\ m[2]["recovery_code"] = <<ret.args[2]>>

----------------------------------------------------------------------------
(* C9 *)

\* C9: reset_password for a registered user fails with InvalidRecoveryCode
\* when no code is stored or the code given is not the stored one, otherwise
\* with PasswordTooShort when the new password is too short; a failed
\* reset_password changes no user record, so it does not consume the code.
C9_ResetErrors ==
    [][(Called("reset_password") /\ ret'.args[1] \in DOMAIN users)
         => LET stored == StoredCode(users, ret'.args[1])
            IN  /\ IF stored = << >> \/ stored # <<ret'.args[2]>>
                   THEN ~ret'.ok /\ ret'.msg = MsgInvalidCode
                   ELSE IF Len(ret'.args[3]) < PASSWORD_MIN_LENGTH
                   THEN ~ret'.ok /\ ret'.msg = MsgNewPasswordTooShort
                   ELSE ret'.ok
                /\ ~ret'.ok => users' = users]_vars

\* a reset with the right code and a short password was refused and the code
\* is still stored
C9_Witness ==
    /\ ret.op = "reset_password"
    /\ ret.msg = MsgNewPasswordTooShort
    /\ ret.args[1] \in DOMAIN users
    /\ StoredCode(users, ret.args[1]) = <<ret.args[2]>>

----------------------------------------------------------------------------
(* C10 *)

\* C10: login, generate_recovery_code and reset_password with a username that
\* is not registered fail with the one UserNotFound result and change neither
\* the user map nor the attempt map.
C10_UserNotFound ==
    [][(/\ ret'.op \in {"login", "generate_recovery_code", "reset_password"}
        /\ ret'.args[1] \notin DOMAIN users)
         => /\ ~ret'.ok
            /\ ret'.msg = MsgUserNotFound
            /\ ret'.n = 0
            /\ users' = users
            /\ login_attempts' = login_attempts]_vars

\* a login with an unknown username was refused and no attempt record exists
\* for that name
C10_Witness ==
    /\ ret.op = "login"
    /\ ret.msg = MsgUserNotFound
    /\ ret.args[1] \notin DOMAIN users
    /\ ret.args[1] \notin DOMAIN login_attempts

----------------------------------------------------------------------------
(* C11 *)

\* the file exists and its text is the JSON of dict d
FileHolds(file, d) ==
    /\ file # << >>
    /\ file[1].valid
    /\ file[1].members = {<<k, d[k]>> : k \in DOMAIN d}

\* C11: with every write succeeding, whenever an operation has returned the
\* user file holds the user map and the attempts file holds the attempt map:
\* no change made in memory, the clearing of an expired lockout included, is
\* left unsaved.
C11_Persisted ==
    /\ FileHolds(disk.db, users)
    /\ FileHolds(disk.attempts, login_attempts)

\* a login has succeeded after a failure: the zeroed record and the new
\* last_login are in memory and in the files
C11_Witness ==
    /\ ret.op = "login"
    /\ ret.ok
    /\ ret.args[1] \in DOMAIN login_attempts
    /\ login_attempts[ret.args[1]] = [count |-> 0]
    /\ users[ret.args[1]]["last_login"] = <<"str", now>>
    /\ FileHolds(disk.db, users)
    /\ FileHolds(disk.attempts, login_attempts)

----------------------------------------------------------------------------
(* C12 *)

\* C12: with every write succeeding, a LoginSystem constructed from the files
\* the last one saved has the same user map, field for field, and the same
\* attempt map: failed_count and a lockout in effect survive the restart.
C12_RoundTrip ==
    [][Called("__init__")
         => users' = users /\ login_attempts' = login_attempts]_vars

\* the process was started again while a user was locked out, and the user
\* still is
C12_Witness ==
    /\ ret.op = "__init__"
    /\ \E u \in DOMAIN users :
         /\ LockedAt(login_attempts, u, now)
         /\ FailedCount(login_attempts, u) = MAX_LOGIN_ATTEMPTS
         /\ users[u]["last_login"] # << >>

----------------------------------------------------------------------------
(* C13 *)

\* C13: a construction reads the attempt map from the attempts file whenever
\* that file exists and parses, whatever the state of the user file: the
\* attempt map after the construction is what the attempts file held before
\* it, also when the user file was absent and the admin was bootstrapped.
C13_AttemptsRead ==
    [][Called("__init__") /\ disk.attempts # NoFile /\ disk.attempts[1].valid
         => login_attempts' = json_load(disk.attempts[1])]_vars

----------------------------------------------------------------------------
(* C14 *)

\* the step is a call that ran save_data: an operation that succeeded, a
\* login that counted a wrong password, or a construction without user file
Saves ==
    \/ /\ ret'.op \in {"register", "login", "generate_recovery_code",
                       "reset_password"}
       /\ ret'.ok \/ ret'.msg \in {MsgInvalidPassword, MsgNewlyLocked}
    \/ /\ ret'.op = "__init__"
       /\ disk.db = NoFile

\* C14: a save_data that finds a user file leaves in the backup file, when
\* the copy succeeds, exactly what the user file held before the save; one
\* that finds no user file leaves the backup file alone; when the copy
\* fails, the user file and the attempts file are written all the same.
C14_Backup ==
    [][Saves =>
         /\ disk.db # NoFile /\ io.backup = "ok" => disk'.backup = disk.db
         /\ disk.db = NoFile => disk'.backup = disk.backup
         /\ io.backup # "ok" /\ io.db = "ok" /\ io.attempts = "ok"
              => /\ FileHolds(disk'.db, users')
                 /\ FileHolds(disk'.attempts, login_attempts')]_vars

\* after a second login the backup holds the record of the first login and
\* the user file the record of the second
C14_Witness ==
    /\ ret.op = "login"
    /\ ret.ok
    /\ FileHolds(disk.db, users)
    /\ disk.backup # NoFile
    /\ disk.backup[1].valid
    /\ \E m \in disk.backup[1].members :
         /\ m[1] = ADMIN_USERNAME
         /\ m[2]["last_login"] # None
         /\ m[2]["last_login"] # users[ADMIN_USERNAME]["last_login"]

----------------------------------------------------------------------------
(* C15 *)

\* the user map holds the default admin account as created at t, alone
SeedOnly(us, t) ==
    /\ DOMAIN us = {ADMIN_USERNAME}
    /\ us[ADMIN_USERNAME]["role"] = "admin"
    /\ us[ADMIN_USERNAME]["password"] = <<"sha256", ADMIN_PASSWORD>>
    /\ us[ADMIN_USERNAME]["created_at"] = <<"str", t>>
    /\ us[ADMIN_USERNAME]["last_login"] = None
    /\ us[ADMIN_USERNAME]["recovery_code"] = None

\* C15: a construction that finds no user file leaves exactly one record,
\* the admin with the hash of the default password, no last_login and no
\* recovery_code, and writes it to the user file at once; one that finds a
\* user file, readable or corrupt, adds no account to what the file gives
\* and writes nothing.
C15_SeedAccount ==
    [][Called("__init__") =>
         IF disk.db = NoFile
         THEN /\ SeedOnly(users', now)
              /\ io.db = "ok" => FileHolds(disk'.db, users')
         ELSE /\ IF disk.db[1].valid
                 THEN FileHolds(disk.db, users')
                 ELSE users' = EmptyDict
              /\ disk' = disk]_vars

\* the program was started later without user file: the admin created at
\* that time is the only account and is in the user file
C15_Witness ==
    /\ ret.op = "__init__"
    /\ now > 0
    /\ SeedOnly(users, now)
    /\ FileHolds(disk.db, users)

----------------------------------------------------------------------------
(* C16 *)

\* the object as it is, on a file system whose writes succeed
MeOk == [Me EXCEPT !.io = IoOk]

\* two outcomes of a call that differ at most in the files
SameOutcome(a, b) ==
    /\ a.users = b.users
    /\ a.login_attempts = b.login_attempts
    /\ a.ret = b.ret

\* the calls made on the failing file system, on the object self
IoCalls(self) ==
    <<login(self, now, ADMIN_USERNAME, ADMIN_PASSWORD),
      login(self, now, ADMIN_USERNAME, "abc12"),
      generate_recovery_code(self, ADMIN_USERNAME, IoCode),
      reset_password(self, ADMIN_USERNAME, IoCode, IoNewPassword)>>

\* the call that returned r ran save_data
RanSaveData(r) == r.ok \/ r.msg \in {MsgInvalidPassword, MsgNewlyLocked}

\* C16: whatever write of save_data fails, every call returns what it
\* returns when the writes succeed and leaves the same maps in memory; a
\* failed write of the user file does not keep the attempts file from being
\* written; and a call that runs save_data with all writes succeeding
\* leaves both files equal to the maps, whatever failed before.
C16_WriteFailure ==
    LET failing == IoCalls(Me)
        succeeding == IoCalls(MeOk)
    IN  \A i \in DOMAIN failing :
          /\ SameOutcome(failing[i], succeeding[i])
          /\ RanSaveData(failing[i].ret) =>
               /\ io.attempts = "ok" =>
                    FileHolds(failing[i].disk.attempts,
                              failing[i].login_attempts)
               /\ FileHolds(succeeding[i].disk.db, succeeding[i].users)
               /\ FileHolds(succeeding[i].disk.attempts,
                            succeeding[i].login_attempts)

\* a write of the user file broke off, and a later login, its writes
\* succeeding, has left both files equal to the maps (the backup still
\* holds the broken file)
C16_Witness ==
    /\ ret.op = "login"
    /\ io = IoOk
    /\ disk.backup = <<CorruptText>>
    /\ FileHolds(disk.db, users)
    /\ FileHolds(disk.attempts, login_attempts)

----------------------------------------------------------------------------
(* C17 *)

\* C17: in the shell, is_admin is true only while logged_user is set and
\* that user's role is admin, whatever logins, failed logins and logouts of
\* the admin and of other users came before, and list_users is called only
\* while is_admin is true.
C17_AdminSession ==
    /\ is_admin =>
         /\ logged_user # None
         /\ logged_user[1] \in DOMAIN users
         /\ users[logged_user[1]]["role"] = "admin"
    /\ ret.op = "list_users" => is_admin

\* a user who is not admin is logged in after the admin had logged in and
\* out: is_admin is false
C17_Witness ==
    /\ logged_user # None
    /\ users[logged_user[1]]["role"] = "user"
    /\ users[logged_user[1]]["last_login"] # None
    /\ users[ADMIN_USERNAME]["last_login"] # None
    /\ ~is_admin

----------------------------------------------------------------------------
(* C18 *)

\* v is the SHA-256 digest of one of the passwords
IsDigest(v) == \E p \in Passwords : v = <<"sha256", p>>

\* every record of a user file that parses holds a digest
FileHoldsDigests(file) ==
    file # NoFile /\ file[1].valid
        => \A m \in file[1].members : IsDigest(m[2]["password"])

\* C18: in every reachable state the password field of every user record,
\* in memory, in the user file and in its backup, is the digest of a
\* password and never the text given to register, to reset_password or to
\* the creation of the admin (the first state); right after a successful
\* register or reset_password it is the digest of the password that call
\* was given.
C18_StoredDigest ==
    /\ \A u \in DOMAIN users : IsDigest(users[u]["password"])
    /\ FileHoldsDigests(disk.db)
    /\ FileHoldsDigests(disk.backup)
    /\ ret.op = "register" /\ ret.ok
         => users[ret.args[1]]["password"] = <<"sha256", ret.args[2]>>
    /\ ret.op = "reset_password" /\ ret.ok
         => users[ret.args[1]]["password"] = <<"sha256", ret.args[3]>>

\* a registered user has reset the password: memory and the user file hold
\* the digest of the new one, the backup the digest of the old one
C18_Witness ==
    /\ ret.op = "reset_password"
    /\ ret.ok
    /\ ret.args[1] # ADMIN_USERNAME
    /\ users[ret.args[1]]["password"] = <<"sha256", ret.args[3]>>
    /\ FileHolds(disk.db, users)
    /\ \E m \in disk.backup[1].members :
         /\ m[1] = ret.args[1]
         /\ m[2]["password"] # users[ret.args[1]]["password"]

----------------------------------------------------------------------------
(* C19 *)

\* C19: a login made while the lockout of the user is in effect leaves the
\* user map, the attempt map and the three files as they were (count not
\* raised, lockout_until not moved, last_login not set, nothing saved), and
\* the failure that starts a lockout sets lockout_until to LOCKOUT_TIME
\* after the time of that call: the lockout ends then, however many logins
\* are tried before.
C19_LockedFrame ==
    [][Called("login") /\ ret'.args[1] \in DOMAIN users =>
         /\ LockedAt(login_attempts, ret'.args[1], now) =>
              /\ users' = users
              /\ login_attempts' = login_attempts
              /\ disk' = disk
         /\ ~HasLockoutUntil(login_attempts, ret'.args[1])
            /\ HasLockoutUntil(login_attempts', ret'.args[1]) =>
              LockoutUntil(login_attempts', ret'.args[1]) = now + LOCKOUT_TIME]_vars

\* a login with the right password was refused late in the lockout that a
\* failure at time 0 started: the lockout still ends at LOCKOUT_TIME
C19_Witness ==
    /\ ret.op = "login"
    /\ ret.msg = MsgLocked
    /\ IsPasswordOf(users, ret.args[1], ret.args[2])
    /\ now > 0
    /\ LockoutUntil(login_attempts, ret.args[1]) = LOCKOUT_TIME
    /\ FailedCount(login_attempts, ret.args[1]) = MAX_LOGIN_ATTEMPTS

----------------------------------------------------------------------------
(* C20 *)

\* the codes reset_password accepts for user u, with a new password of
\* acceptable length
AcceptedCodes(us, la, dk, u) ==
    {c \in SuppliedCodes :
        reset_password(Self(us, la, dk), u, c, ADMIN_PASSWORD).ret.ok}

\* C20: generate_recovery_code replaces a code that was stored and not yet
\* used: right after a call that returns a code other than the one stored
\* before, reset_password with the earlier code fails with
\* InvalidRecoveryCode whatever the new password, and with the code just
\* returned and an acceptable new password it succeeds; and whenever the
\* user map has changed reset_password accepts at most one code for a user.
C20_CodeReplaced ==
    [][/\ users' # users =>
            \A u \in DOMAIN users' :
              Cardinality(AcceptedCodes(users', login_attempts', disk', u)) <= 1
       /\ (/\ Called("generate_recovery_code")
           /\ ret'.ok
           /\ StoredCode(users, ret'.args[1]) # None
           /\ StoredCode(users, ret'.args[1]) # Some(ret'.msg))
            => LET after == Self(users', login_attempts', disk')
                   u == ret'.args[1]
                   first == StoredCode(users, u)[1]
               IN  /\ \A new_password \in Passwords :
                        LET r == reset_password(after, u, first, new_password).ret
                        IN  ~r.ok /\ r.msg = MsgInvalidCode
                   /\ reset_password(after, u, ret'.msg, ADMIN_PASSWORD).ret.ok
                   /\ AcceptedCodes(users', login_attempts', disk', u)
                        = {ret'.msg}]_vars

\* a second code was generated while the first, a different one, was still
\* stored: the record holds the second, the backup of the user file the
\* first
C20_Witness ==
    /\ ret.op = "generate_recovery_code"
    /\ ret.ok
    /\ StoredCode(users, ret.args[1]) = Some(ret.msg)
    /\ disk.backup # NoFile
    /\ \E m \in disk.backup[1].members :
         /\ m[1] = ret.args[1]
         /\ m[2]["recovery_code"] # None
         /\ m[2]["recovery_code"] # Some(ret.msg)

----------------------------------------------------------------------------
(* C21 *)

\* C21: a login of a registered user who is not locked out succeeds exactly
\* when the password given is the one whose digest is stored; the stored
\* digest is that of the password given to the last successful register or
\* reset_password for the user, since no other step changes it; and right
\* after a successful reset_password to another password a login of the
\* user, if not locked out, succeeds with the new password and with no
\* other.
C21_CurrentPassword ==
    [][/\ (/\ Called("login")
           /\ ret'.args[1] \in DOMAIN users
           /\ ~LockedAt(login_attempts, ret'.args[1], now))
            => (ret'.ok <=> IsPasswordOf(users, ret'.args[1], ret'.args[2]))
       /\ Called("register") /\ ret'.ok
            => IsPasswordOf(users', ret'.args[1], ret'.args[2])
       /\ Called("reset_password") /\ ret'.ok
            => /\ IsPasswordOf(users', ret'.args[1], ret'.args[3])
               /\ (/\ ~IsPasswordOf(users, ret'.args[1], ret'.args[3])
                   /\ ~LockedAt(login_attempts', ret'.args[1], now))
                    => \A p \in Passwords :
                         login(Self(users', login_attempts', disk'), now,
                               ret'.args[1], p).ret.ok
                           <=> p = ret'.args[3]
       /\ \A u \in DOMAIN users :
            /\ u \in DOMAIN users'
            /\ users'[u]["password"] # users[u]["password"]
                 => /\ Called("reset_password")
                    /\ ret'.ok
                    /\ ret'.args[1] = u]_vars

\* a user who is not locked out has reset the password to another one: a
\* login with the new one would succeed, one with the old one (its digest
\* is still in the backup of the user file) would not
C21_Witness ==
    /\ ret.op = "reset_password"
    /\ ret.ok
    /\ ~LockedAt(login_attempts, ret.args[1], now)
    /\ login(Me, now, ret.args[1], ret.args[3]).ret.ok
    /\ disk.backup # NoFile
    /\ \E m \in disk.backup[1].members :
         /\ m[1] = ret.args[1]
         /\ m[2]["password"] # users[ret.args[1]]["password"]
         /\ ~login(Me, now, ret.args[1], m[2]["password"][2]).ret.ok

----------------------------------------------------------------------------
(* C22 *)

\* the attempt record of u is well formed, and u is a registered user
WellFormedAttempts(us, la, u) ==
    /\ u \in DOMAIN us
    /\ la[u]["count"] \in 0..MAX_LOGIN_ATTEMPTS
    /\ "lockout_until" \in DOMAIN la[u]
         <=> la[u]["count"] = MAX_LOGIN_ATTEMPTS

\* C22: from the empty attempt map of the first run on, after every step
\* each attempt record belongs to a registered user, has a count from 0 to
\* MAX_LOGIN_ATTEMPTS, and has lockout_until exactly when the count is
\* MAX_LOGIN_ATTEMPTS; and a record comes into being only in a login of that
\* user that failed on the comparison of the password.
C22_AttemptRecords ==
    [][/\ \A u \in DOMAIN login_attempts' :
            WellFormedAttempts(users', login_attempts', u)
       /\ \A u \in DOMAIN login_attempts' \ DOMAIN login_attempts :
            /\ Called("login")
            /\ ret'.args[1] = u
            /\ ~ret'.ok
            /\ ret'.msg \in {MsgInvalidPassword, MsgNewlyLocked}
            /\ ~IsPasswordOf(users, u, ret'.args[2])]_vars

\* a second wrong password in a row: the record has count
\* MAX_LOGIN_ATTEMPTS - 1 and no lockout_until
C22_Witness ==
    /\ ret.op = "login"
    /\ ret.msg = MsgInvalidPassword
    /\ ret.n = 1
    /\ ret.args[1] \in DOMAIN login_attempts
    /\ login_attempts[ret.args[1]]["count"] = MAX_LOGIN_ATTEMPTS - 1
    /\ "lockout_until" \notin DOMAIN login_attempts[ret.args[1]]

----------------------------------------------------------------------------
(* C23 *)

\* the object as it is, had no login ever failed
NoAttempts == Self(users, EmptyDict, disk)

\* C23: generate_recovery_code and reset_password leave the attempt map as
\* it was and give the same result and the same user map as on an object
\* whose attempt map is empty; so after a successful reset_password of a
\* locked-out user the count and lockout_until are the same, and a login
\* with the new password is refused with AccountLocked at every time before
\* lockout_until and succeeds from lockout_until on.
C23_RecoveryKeepsAttempts ==
    [][/\ Called("generate_recovery_code") =>
            /\ login_attempts' = login_attempts
            /\ \E code \in GeneratedCodes :
                 LET r == generate_recovery_code(NoAttempts, ret'.args[1], code)
                 IN  r.ret = ret' /\ r.users = users'
       /\ Called("reset_password") =>
            /\ login_attempts' = login_attempts
            /\ LET r == reset_password(NoAttempts, ret'.args[1], ret'.args[2],
                                       ret'.args[3])
               IN  r.ret = ret' /\ r.users = users'
            /\ ret'.ok /\ LockedAt(login_attempts, ret'.args[1], now) =>
                 LET u == ret'.args[1]
                     until == LockoutUntil(login_attempts', u)
                     after == Self(users', login_attempts', disk')
                 IN  /\ FailedCount(login_attempts', u)
                          = FailedCount(login_attempts, u)
                     /\ until = LockoutUntil(login_attempts, u)
                     /\ \A t \in {now, until - 1} :
                          LET r == login(after, t, u, ret'.args[3]).ret
                          IN  ~r.ok /\ r.msg = MsgLocked
                     /\ \A t \in {until, until + TickStep} :
                          login(after, t, u, ret'.args[3]).ret.ok]_vars

\* a locked-out user has reset the password: the lockout is as it was and
\* a login with the new password is refused
C23_Witness ==
    /\ ret.op = "reset_password"
    /\ ret.ok
    /\ LockedAt(login_attempts, ret.args[1], now)
    /\ FailedCount(login_attempts, ret.args[1]) = MAX_LOGIN_ATTEMPTS
    /\ IsPasswordOf(users, ret.args[1], ret.args[3])
    /\ login(Me, now, ret.args[1], ret.args[3]).ret.msg = MsgLocked

----------------------------------------------------------------------------
(* C24 *)

\* the admin account is there and is the only record with role admin
OnlySeedIsAdmin(us) ==
    /\ ADMIN_USERNAME \in DOMAIN us
    /\ {u \in DOMAIN us : us[u]["role"] = "admin"} = {ADMIN_USERNAME}

\* C24: from the first run on, no step removes a record or changes the role
\* of one, a record comes into being only in a successful register and with
\* role user, and so the admin account created at the first run is always
\* there and is the only record with role admin.
C24_Roles ==
    /\ OnlySeedIsAdmin(users)
    /\ [][/\ \A u \in DOMAIN users :
               /\ u \in DOMAIN users'
               /\ users'[u]["role"] = users[u]["role"]
          /\ \A u \in DOMAIN users' \ DOMAIN users :
               /\ Called("register")
               /\ ret'.ok
               /\ ret'.args[1] = u
               /\ users'[u]["role"] = "user"
          /\ OnlySeedIsAdmin(users')]_vars

\* a user has registered and logged in, the admin has logged in and has
\* reset the password: the admin is the only one with role admin
C24_Witness ==
    /\ ret.op = "reset_password"
    /\ ret.ok
    /\ ret.args[1] = ADMIN_USERNAME
    /\ users[ADMIN_USERNAME]["last_login"] # None
    /\ \E u \in DOMAIN users :
         /\ users[u]["role"] = "user"
         /\ users[u]["last_login"] # None
    /\ OnlySeedIsAdmin(users)

====
